---------------------------- MODULE Spec2Model ----------------------------
(***************************************************************************)
(* A model of pywrangler's dependency synchronisation (workers-py):        *)
(*   - install_requirements and the two installers of sync.py,             *)
(*   - run_command of utils.py,                                            *)
(*   - get_python_version of utils.py,                                     *)
(*   - the pin parser and the version extraction used by the tests of      *)
(*     test_version_sync.py.                                               *)
(***************************************************************************)
EXTENDS Integers, Sequences, FiniteSets, TLC

(***************************************************************************)
(* Bounds of the model.                                                    *)
(***************************************************************************)
\* longest requirement list of a manifest
MaxReqs == 2
\* number of invocations of install_requirements in one behaviour
MaxRuns == 2
\* longest text of the package listing, in characters
MaxText == 7
\* number of times the wrangler configuration is rewritten in one behaviour
MaxEdits == 1
\* latest time the clock of the file system shows
MaxClock == 1

(***************************************************************************)
(* Small helpers on sequences.                                             *)
(***************************************************************************)
Range(s) == {s[i] : i \in 1..Len(s)}

SeqsUpTo(S, n) == UNION {[1..k -> S] : k \in 0..n}

(***************************************************************************)
(* The inputs: package names of the manifest, the outcomes of the external *)
(* `uv pip install` processes, and the texts they print.                   *)
(***************************************************************************)
Packages == {"numpy", "shapely"}

RequirementLists == SeqsUpTo(Packages, MaxReqs)

\* the signatures test_known_pyodide_errors looks for, with their hints
KnownSignatures ==
    {"invalid peer certificate", "failed to fetch",
     "no solution found when resolving dependencies"}

\* A diagnostic is the set of phrases the text of a failed installer holds.
PyodideDiagnostics == {{"Pyodide install failed"} \cup s : s \in SUBSET KnownSignatures}

NativeDiagnostics == {{"Native install failed"}}

\* what a process gives: its return code and what it prints
ProcOk == [returncode |-> 0, text |-> {}]

VendorProcs == {ProcOk} \cup [returncode : {2}, text : PyodideDiagnostics]

VenvProcs == {ProcOk} \cup [returncode : {1, 2}, text : NativeDiagnostics]

\* a faulty vendor install: pyvenv.cfg is not written
VendorExtras_no_cfg == {".synced"}

\* entries of python_modules besides the packages
VendorExtras == {"pyvenv.cfg", ".synced"}

\* a directory that does not exist
NoDir == [exists |-> FALSE, entries |-> {}]

Dir(entries) == [exists |-> TRUE, entries |-> entries]

VARIABLES
    pc,            \* where install_requirements is: idle, vendor, venv, done, aborted
    requirements,  \* the list install_requirements was called with
    uvOnPath,      \* shutil.which("uv") finds the executable
    vendorProc,    \* what uv pip install gives for the pyodide venv in this run
    venvProc,      \* what uv pip install gives for .venv-workers in this run
    calls,         \* the installers invoked in this run, with their argument
    output,        \* what this run printed: the log records and the process output
    exitCode,      \* code of the click Exit that ended the run, 0 when none
    pyodideSite,   \* packages in .venv-workers/pyodide-venv/lib/pythonX/site-packages
    vendorDir,     \* python_modules: whether it exists, and its entries
    venvPkgs,      \* packages installed in .venv-workers
    venvToken,     \* .venv-workers/.synced exists
    runs,          \* invocations of install_requirements so far
    killed,        \* the invocation before this one was ended by the
                   \* termination of its process
    freeze,        \* the package listing: return code, stdout, and whether
                   \* the vendor environment could be inspected
    extraction,    \* the last version extraction: its state and its result
    config,        \* the wrangler configuration on disk
    versionCache,  \* what functools.cache holds for get_python_version
    versionCall,   \* the last call of get_python_version and its outcome
    edits,         \* rewrites of the configuration so far
    derived,       \* the names this process derived from the runtime version
    tokenTime,     \* st_mtime of python_modules/.synced and .venv-workers/.synced
    now,           \* the clock of the file system
    manifest,      \* pyproject.toml: whether it is there, parses, its
                   \* dependencies and its st_mtime
    workersVenv,   \* .venv-workers: whether it exists, and what its python reports
    pyodideVenv,   \* .venv-workers/pyodide-venv exists
    pathCached,    \* functools.cache of find_pyproject_toml holds the path
    syncCheck,     \* the last call of is_sync_needed and its result
    command,       \* the command line of this process: name, arguments, --force
    stage,         \* where the command is
    syncState,     \* sync_command in this process: none, running, returned, aborted
    proxied,       \* the wrangler processes this process asked for
    cliExit,       \* the exit code of the process, once it has exited
    runCall        \* a call of run_command: its arguments and what it gave

syncVars == <<pc, requirements, uvOnPath, vendorProc, venvProc, calls, output,
              exitCode, pyodideSite, vendorDir, venvPkgs, venvToken, runs, killed>>

extractVars == <<freeze, extraction>>

runVars == <<runCall>>

versionVars == <<config, versionCache, versionCall, edits, derived>>

fsVars == <<now, manifest, workersVenv, pyodideVenv>>

staleVars == <<pathCached, syncCheck>>

cliVars == <<command, stage, syncState, proxied, cliExit>>

vars == <<syncVars, extractVars, runVars, versionVars, tokenTime, fsVars,
          staleVars, cliVars>>

(***************************************************************************)
(* utils.run_command: the executable is looked up first; with check a      *)
(* non-zero return code becomes click.exceptions.Exit(code=returncode),    *)
(* without check the completed process is returned.  The process inherits  *)
(* the terminal unless capture_output is set, so what it prints is seen    *)
(* before the error record.                                                *)
(***************************************************************************)
\* a faulty run_command: check is taken to be set whatever the caller says
run_command_always_checking(found, proc, check, capture) ==
    IF ~found
    THEN [raised |-> TRUE, code |-> 1, printed |-> <<{"Command not found"}>>,
          process |-> ProcOk, started |-> FALSE, stdout |-> {}]
    ELSE IF proc.returncode # 0
    THEN [raised |-> TRUE, code |-> proc.returncode,
          printed |-> (IF capture \/ proc.text = {} THEN <<>> ELSE <<proc.text>>)
                      \o <<{"Error running command"}>>,
          process |-> proc, started |-> TRUE, stdout |-> {}]
    ELSE [raised |-> FALSE, code |-> 0,
          printed |-> IF capture \/ proc.text = {} THEN <<>> ELSE <<proc.text>>,
          process |-> proc, started |-> TRUE,
          stdout |-> IF capture THEN proc.text ELSE {}]

\* started: subprocess.run was reached; stdout: what the returned process
\* holds, which is the output only when it was captured
run_command(found, proc, check, capture) ==
    IF ~found
    THEN [raised |-> TRUE, code |-> 1, printed |-> <<{"Command not found"}>>,
          process |-> ProcOk, started |-> FALSE, stdout |-> {}]
    ELSE IF check /\ proc.returncode # 0
    THEN [raised |-> TRUE, code |-> proc.returncode,
          printed |-> (IF capture \/ proc.text = {} THEN <<>> ELSE <<proc.text>>)
                      \o <<{"Error running command"}>>,
          process |-> proc, started |-> TRUE, stdout |-> {}]
    ELSE [raised |-> FALSE, code |-> 0,
          printed |-> IF capture \/ proc.text = {} THEN <<>> ELSE <<proc.text>>,
          process |-> proc, started |-> TRUE,
          stdout |-> IF capture THEN proc.text ELSE {}]

TypeOK ==
    /\ pc \in {"idle", "vendor", "venv", "done", "aborted", "killed"}
    /\ requirements \in RequirementLists
    /\ uvOnPath \in BOOLEAN
    /\ vendorProc \in VendorProcs
    /\ venvProc \in VenvProcs
    /\ exitCode \in 0..2
    /\ pyodideSite \subseteq Packages
    /\ vendorDir \in {NoDir} \cup {Dir(e) : e \in SUBSET (Packages \cup VendorExtras)}
    /\ venvPkgs \subseteq Packages \cup {"pyodide-py"}
    /\ venvToken \in BOOLEAN
    /\ runs \in 0..MaxRuns
    /\ killed \in BOOLEAN

SyncInit ==
    /\ pc = "idle"
    /\ requirements = <<>>
    /\ uvOnPath = TRUE
    /\ vendorProc = ProcOk
    /\ venvProc = ProcOk
    /\ calls = <<>>
    /\ output = <<>>
    /\ exitCode = 0
    /\ pyodideSite = {}
    /\ vendorDir = NoDir
    /\ venvPkgs = {}
    /\ venvToken = FALSE
    /\ runs = 0
    /\ killed = FALSE

NoListing == [returncode |-> 0, stdout |-> <<>>, inspectable |-> TRUE]

NoExtraction == [state |-> "none", raised |-> FALSE, pins |-> <<>>]

\* run_command has not been called
NoRun == [state |-> "none"]

RunIdle == runCall = NoRun

ExtractIdle ==
    /\ freeze = NoListing
    /\ extraction = NoExtraction

\* a date that is not given: compat_date None, or no compatibility_date key
NoDate == [given |-> FALSE, y |-> 0, m |-> 0, d |-> 0]

Date(y, m, d) == [given |-> TRUE, y |-> y, m |-> m, d |-> d]

\* _parse_wrangler_config() returned {}
NoConfig == [present |-> FALSE, compatibility_date |-> NoDate,
             compatibility_flags |-> {}]

NoVersion == "none"

NoCall == [state |-> "none", raised |-> FALSE, code |-> 0, version |-> NoVersion,
           cached |-> FALSE]

\* no name has been derived from the runtime version yet
NoName == "none"

NoNames == [interp |-> NoName, index |-> NoName, site |-> NoName]

VersionIdle ==
    /\ config = NoConfig
    /\ versionCache = NoVersion
    /\ versionCall = NoCall
    /\ edits = 0
    /\ derived = NoNames

\* pyproject.toml as written at time `mtime`
Manifest(valid, dependencies, mtime) ==
    [exists |-> TRUE, valid |-> valid, dependencies |-> dependencies, mtime |-> mtime]

\* no pyproject.toml in the working directory or above it
NoManifest == [exists |-> FALSE, valid |-> FALSE, dependencies |-> <<>>, mtime |-> 0]

\* no .venv-workers directory
NoVenv == [exists |-> FALSE, python |-> NoVersion]

\* a .venv-workers whose bin/python --version prints `python`; NoVersion
\* when _get_venv_python_version cannot tell
Venv(python) == [exists |-> TRUE, python |-> python]

\* what bin/python --version prints, stripped
PythonOutputs == {"Python 3.12.7", "Python 3.13.2", "Python 3.13.12"}

\* the characters of the strings that are searched in one another
Characters(text) ==
    CASE text = "3.12" -> <<"3", ".", "1", "2">>
      [] text = "3.13" -> <<"3", ".", "1", "3">>
      [] text = "Python 3.12.7" ->
           <<"P", "y", "t", "h", "o", "n", " ", "3", ".", "1", "2", ".", "7">>
      [] text = "Python 3.13.2" ->
           <<"P", "y", "t", "h", "o", "n", " ", "3", ".", "1", "3", ".", "2">>
      [] text = "Python 3.13.12" ->
           <<"P", "y", "t", "h", "o", "n", " ", "3", ".", "1", "3", ".", "1", "2">>

\* `part in text` for two strings given by their characters
Contains(text, part) ==
    \E i \in 0..(Len(text) - Len(part)) : SubSeq(text, i + 1, i + Len(part)) = part

\* the test of create_workers_venv: the installed version is known and
\* the wanted version occurs in it
VenvIsKept(venv, wanted) ==
    /\ venv.exists
    /\ venv.python # NoVersion
    /\ Contains(Characters(venv.python), Characters(wanted))

\* the interpreter uv venv --python python{wanted} puts in the environment
PythonOf(wanted) ==
    CASE wanted = "3.12" -> "Python 3.12.7"
      [] wanted = "3.13" -> "Python 3.13.2"

NoTimes == [vendor |-> 0, venv |-> 0]

NoCheck == [state |-> "none", raised |-> FALSE, needed |-> FALSE]

NoCommand == [name |-> "none", args |-> <<>>, force |-> FALSE]

\* a project directory nothing has been synchronised in
FsIdle ==
    /\ now = 0
    /\ manifest = Manifest(TRUE, <<>>, 0)
    /\ tokenTime = NoTimes
    /\ workersVenv = NoVenv
    /\ pyodideVenv = FALSE
    /\ pathCached = FALSE
    /\ syncCheck = NoCheck

\* no command line has been given
CliIdle ==
    /\ command = NoCommand
    /\ stage = "idle"
    /\ syncState = "none"
    /\ proxied = <<>>
    /\ cliExit = 0

Init == SyncInit /\ ExtractIdle /\ RunIdle /\ VersionIdle /\ FsIdle /\ CliIdle

(***************************************************************************)
(* install_requirements(requirements) is entered: a new run of the tool.   *)
(* The outcomes of the two installer processes are the environment's and   *)
(* are fixed here, as the mocks of test_version_sync.py fix them.          *)
(***************************************************************************)
\* a faulty order: the native installer first
install_requirements_steps_swapped == <<"venv", "vendor">>

\* a faulty body: the native installer is not called
install_requirements_steps_vendor_only == <<"vendor">>

\* the body of install_requirements: the installers it calls, in order
install_requirements_steps == <<"vendor", "venv">>

\* where control goes when the call of `step` returns
StepAfter(step) ==
    LET i == CHOOSE k \in 1..Len(install_requirements_steps) :
                 install_requirements_steps[k] = step
    IN  IF i < Len(install_requirements_steps)
        THEN install_requirements_steps[i + 1]
        ELSE "done"

install_requirements ==
    /\ pc \in {"idle", "done", "aborted"}
    /\ runs < MaxRuns
    /\ \E reqs \in RequirementLists, found \in BOOLEAN,
          vp \in VendorProcs, np \in VenvProcs :
        /\ requirements' = reqs
        /\ uvOnPath' = found
        /\ vendorProc' = vp
        /\ venvProc' = np
    /\ pc' = install_requirements_steps[1]
    /\ calls' = <<>>
    /\ output' = <<>>
    /\ exitCode' = 0
    /\ runs' = runs + 1
    /\ UNCHANGED killed
    /\ UNCHANGED <<pyodideSite, vendorDir, venvPkgs, venvToken, tokenTime>>
    /\ UNCHANGED <<extractVars, runVars, versionVars, fsVars, staleVars, cliVars>>

(***************************************************************************)
(* _install_requirements_to_vendor(requirements).  The runtime version     *)
(* read by get_pyodide_index and for the site-packages path is the cached  *)
(* one: create_workers_venv resolved it earlier in the same sync.          *)
(***************************************************************************)
\* a faulty mkdir: the token is written with the directory
Mkdir_touching(dir) == Dir(dir.entries \cup {".synced"})

\* a faulty mkdir: the directory is emptied when it exists
Mkdir_clearing(dir) == Dir({})

\* vendor_path.mkdir(parents=True, exist_ok=True)
Mkdir(dir) == IF dir.exists THEN dir ELSE Dir({})

\* what uv pip install -r leaves in site-packages: the packages that were
\* there and the requested ones
PipInstall(site, reqs) == site \cup Range(reqs)

\* a faulty refresh: site-packages is copied over what python_modules holds
VendorAfterInstall_merging(dir, site) == Dir(dir.entries \cup site \cup VendorExtras)

\* python_modules after rmtree, copytree of site-packages, and the touch of
\* pyvenv.cfg and of the token
VendorAfterInstall(dir, site) == Dir(site \cup VendorExtras)

_install_requirements_to_vendor ==
    /\ pc = "vendor"
    /\ calls' = Append(calls, [fn |-> "vendor", args |-> requirements])
    /\ IF Len(requirements) = 0
       THEN /\ output' = Append(output, {"Requirements list is empty"})
            /\ pc' = StepAfter("vendor")
            /\ UNCHANGED <<exitCode, pyodideSite, vendorDir, tokenTime>>
       ELSE LET r == run_command(uvOnPath, vendorProc, TRUE, FALSE)
                site == PipInstall(pyodideSite, requirements)
            IN  IF r.raised
                THEN /\ output' = output \o <<{"Installing packages into python_modules"}>>
                                         \o r.printed
                     /\ pc' = "aborted"
                     /\ exitCode' = r.code
                     /\ vendorDir' = Mkdir(vendorDir)
                     /\ UNCHANGED <<pyodideSite, tokenTime>>
                ELSE /\ output' = output \o <<{"Installing packages into python_modules"}>>
                                         \o r.printed
                                         \o <<{"Packages installed in python_modules"}>>
                     /\ pc' = StepAfter("vendor")
                     /\ pyodideSite' = site
                     /\ vendorDir' = VendorAfterInstall(Mkdir(vendorDir), site)
                     /\ tokenTime' = [tokenTime EXCEPT !.vendor = now]
                     /\ UNCHANGED exitCode
    /\ UNCHANGED <<requirements, uvOnPath, vendorProc, venvProc, venvPkgs,
                   venvToken, runs, killed>>
    /\ UNCHANGED <<extractVars, runVars, versionVars, fsVars, staleVars, cliVars>>

(***************************************************************************)
(* _install_requirements_to_venv(requirements)                             *)
(***************************************************************************)
\* a faulty installer: "pyodide-py" is appended to the list of the caller
RequirementsAfterVenv_appended(reqs) == Append(reqs, "pyodide-py")

\* requirements = requirements.copy() before the append: the list the
\* caller holds is as it was
RequirementsAfterVenv(reqs) == reqs

\* a faulty installer: the token is left as it was
TouchToken_skipped(token) == token

\* get_venv_workers_token_path().touch(): the token exists afterwards
TouchToken(token) == TRUE

_install_requirements_to_venv ==
    /\ pc = "venv"
    /\ calls' = Append(calls, [fn |-> "venv", args |-> requirements])
    /\ LET reqs == Append(requirements, "pyodide-py")
           r == run_command(uvOnPath, venvProc, TRUE, FALSE)
       IN  IF r.raised
           THEN /\ output' = output \o <<{"Installing packages into .venv-workers"}>>
                                    \o r.printed
                /\ pc' = "aborted"
                /\ exitCode' = r.code
                /\ UNCHANGED <<venvPkgs, venvToken, tokenTime>>
           ELSE /\ output' = output \o <<{"Installing packages into .venv-workers"}>>
                                    \o r.printed
                                    \o <<{"Packages installed in .venv-workers"}>>
                /\ pc' = StepAfter("venv")
                /\ venvPkgs' = PipInstall(venvPkgs, reqs)
                /\ venvToken' = TouchToken(venvToken)
                /\ tokenTime' = [tokenTime EXCEPT !.venv = now]
                /\ UNCHANGED exitCode
    /\ requirements' = RequirementsAfterVenv(requirements)
    /\ UNCHANGED <<uvOnPath, vendorProc, venvProc, pyodideSite, vendorDir, runs,
                   killed>>
    /\ UNCHANGED <<extractVars, runVars, versionVars, fsVars, staleVars, cliVars>>

Next ==
    \/ install_requirements
    \/ _install_requirements_to_vendor
    \/ _install_requirements_to_venv

Spec == Init /\ [][Next]_vars

(***************************************************************************)
(* Vocabulary of the claims about install_requirements.                    *)
(***************************************************************************)
Finished == pc \in {"done", "aborted"}

\* the text was printed or logged in this run
Reported(text) == \E i \in 1..Len(output) : text \subseteq output[i]

CallsOf(fn) == {i \in 1..Len(calls) : calls[i].fn = fn}

\* the installer process of the cross-compiled environment exits non-zero
CrossFails == requirements # <<>> /\ uvOnPath /\ vendorProc.returncode # 0

\* the cross-compiled install succeeds (an empty list is a no-op success)
CrossSucceeds == requirements = <<>> \/ (uvOnPath /\ vendorProc.returncode = 0)

\* the installer process of the native environment exits non-zero
NativeFails == uvOnPath /\ venvProc.returncode # 0

NativeSucceeds == uvOnPath /\ venvProc.returncode = 0

NotSupportedSummary ==
    "Installation of packages into the Python Worker failed. Possibly because these packages are not currently supported. See above for details."

FailedSummary ==
    "Failed to install the requirements defined in your pyproject.toml file. See above for details."

\* the hints of test_known_pyodide_errors
HintOf(signature) ==
    CASE signature = "invalid peer certificate" ->
           "Are your systems certificates correctly installed? Do you have an Enterprise VPN enabled?"
      [] signature = "failed to fetch" -> "Is your network connection working?"
      [] signature = "no solution found when resolving dependencies" ->
           "the packages you requested are not supported by Python Workers. See above for details."

C2_NativeErrorOnly ==
    (Finished /\ CrossFails /\ NativeFails) =>
        /\ pc = "aborted"
        /\ exitCode # 0
        /\ Reported(venvProc.text)
        /\ ~Reported(vendorProc.text)
        /\ CallsOf("extract") = {}

(***************************************************************************)
(* C3: when the cross-compiled install fails and the native install of the *)
(* original requirements succeeds, the run aborts with a non-zero exit,    *)
(* the cross-compiled diagnostic and the "not supported" summary are       *)
(* reported, and the version extraction is not invoked.                    *)
(***************************************************************************)
C3_PyodideErrorAndSummary ==
    (Finished /\ CrossFails /\ NativeSucceeds) =>
        /\ pc = "aborted"
        /\ exitCode # 0
        /\ Reported(vendorProc.text)
        /\ Reported({NotSupportedSummary})
        /\ CallsOf("extract") = {}

(***************************************************************************)
(* C4: when the cross-compiled install succeeds, the extraction gives a    *)
(* non-empty pin list and the native reinstall of the pins fails, the      *)
(* reinstall's diagnostic and the "Failed to install" summary are reported *)
(* and the run aborts with a non-zero exit, after the first native install *)
(* and the extraction were invoked.                                        *)
(***************************************************************************)
C4_ReinstallFailureSummary ==
    (Finished /\ requirements # <<>> /\ CrossSucceeds /\ NativeFails) =>
        /\ pc = "aborted"
        /\ exitCode # 0
        /\ Reported(venvProc.text)
        /\ Reported({FailedSummary})
        /\ CallsOf("extract") # {}
        /\ CallsOf("venv") # {}

(***************************************************************************)
(* C5: in every run the cross-compiled installer is invoked exactly once   *)
(* with the original requirements and the native installer exactly once    *)
(* (with the original requirements when the cross-compiled install failed, *)
(* with the extracted pins when it succeeded); the extraction is invoked   *)
(* exactly once iff the cross-compiled install succeeded.                  *)
(***************************************************************************)
C5_CallCounts ==
    (Finished /\ uvOnPath) =>
        /\ Cardinality(CallsOf("vendor")) = 1
        /\ \A i \in CallsOf("vendor") : calls[i].args = requirements
        /\ Cardinality(CallsOf("venv")) = 1
        /\ CrossFails => \A i \in CallsOf("venv") : calls[i].args = requirements
        /\ Cardinality(CallsOf("extract")) = (IF CrossSucceeds THEN 1 ELSE 0)

(***************************************************************************)
(* C6: when the cross-compiled install fails and the native install        *)
(* succeeds, every known signature in the cross-compiled diagnostic has    *)
(* its hint reported, and a diagnostic with no known signature has none.   *)
(***************************************************************************)
C6_KnownErrorHints ==
    (Finished /\ CrossFails /\ NativeSucceeds) =>
        /\ \A sig \in KnownSignatures \cap vendorProc.text :
               Reported({HintOf(sig)})
        /\ (KnownSignatures \cap vendorProc.text = {}) =>
               \A sig \in KnownSignatures : ~Reported({HintOf(sig)})

(***************************************************************************)
(* C7: when the cross-compiled install succeeds and the extraction gives   *)
(* an empty list (nothing is installed in the cross-compiled environment), *)
(* no pinned native reinstall is invoked and install_requirements          *)
(* completes successfully.                                                 *)
(***************************************************************************)
C7_EmptyPinsSucceed ==
    (Finished /\ uvOnPath /\ CrossSucceeds /\ pyodideSite = {}) =>
        /\ pc = "done"
        /\ exitCode = 0
        /\ \A i \in CallsOf("venv") : \A j \in CallsOf("extract") : i < j


(***************************************************************************)
(* The pin parser and the version extraction.  sync.py at this revision    *)
(* defines neither _parse_pip_freeze nor _get_vendor_package_versions      *)
(* (test_version_sync.py uses them), so both follow their description: the *)
(* listing is read line by line; blank lines and lines beginning with "#"  *)
(* are dropped and of the others those holding "==" are kept, in order; a  *)
(* listing that exits non-zero, or a directory that cannot be inspected,   *)
(* gives the empty list.                                                   *)
(***************************************************************************)
Chars == {"a", "=", "#", "\n"}

Texts == SeqsUpTo(Chars, MaxText)

\* text.split("\n"), scanning the characters from position i with the line
\* read so far in cur
RECURSIVE SplitFrom(_, _, _)
SplitFrom(text, i, cur) ==
    IF i > Len(text) THEN <<cur>>
    ELSE IF text[i] = "\n" THEN <<cur>> \o SplitFrom(text, i + 1, <<>>)
    ELSE SplitFrom(text, i + 1, Append(cur, text[i]))

SplitLines(text) == SplitFrom(text, 1, <<>>)

\* "==" in line
HasSeparator(line) ==
    \E k \in 1..(Len(line) - 1) : line[k] = "=" /\ line[k + 1] = "="

IsBlank(line) == line = <<>>

IsComment(line) == line # <<>> /\ line[1] = "#"

\* a faulty parser: a line with no separator is kept
_parse_pip_freeze_keeps_bare(text) ==
    LET Keep(line) == ~IsBlank(line) /\ ~IsComment(line)
    IN  SelectSeq(SplitLines(text), Keep)

\* a faulty parser: a commented-out pin is kept
_parse_pip_freeze_keeps_comments(text) ==
    LET Keep(line) == ~IsBlank(line) /\ HasSeparator(line)
    IN  SelectSeq(SplitLines(text), Keep)

_parse_pip_freeze(text) ==
    LET Keep(line) == ~IsBlank(line) /\ ~IsComment(line) /\ HasSeparator(line)
    IN  SelectSeq(SplitLines(text), Keep)

\* a faulty extraction: the return code of the listing is ignored
_get_vendor_package_versions_unchecked(listing) ==
    [state |-> "done", raised |-> FALSE,
     pins |-> IF ~listing.inspectable THEN <<>>
              ELSE _parse_pip_freeze(listing.stdout)]

_get_vendor_package_versions(listing) ==
    [state |-> "done", raised |-> FALSE,
     pins |-> IF ~listing.inspectable \/ listing.returncode # 0 THEN <<>>
              ELSE _parse_pip_freeze(listing.stdout)]

Listings == [returncode : {0, 1}, stdout : Texts, inspectable : BOOLEAN]

InitExtract ==
    /\ SyncInit
    /\ RunIdle
    /\ VersionIdle
    /\ FsIdle
    /\ CliIdle
    /\ freeze \in Listings
    /\ extraction = NoExtraction

\* the parser is called on the text of the listing, as test_parse_pip_freeze
\* calls it
ParsePipFreeze ==
    /\ extraction.state = "none"
    /\ extraction' = [state |-> "parsed", raised |-> FALSE,
                      pins |-> _parse_pip_freeze(freeze.stdout)]
    /\ UNCHANGED <<freeze, runVars>>
    /\ UNCHANGED <<syncVars, versionVars, tokenTime, fsVars, staleVars, cliVars>>

\* the extraction is called on the listing
GetVendorPackageVersions ==
    /\ extraction.state = "none"
    /\ extraction' = _get_vendor_package_versions(freeze)
    /\ UNCHANGED <<freeze, runVars>>
    /\ UNCHANGED <<syncVars, versionVars, tokenTime, fsVars, staleVars, cliVars>>

NextExtract ==
    \/ ParsePipFreeze
    \/ GetVendorPackageVersions

SpecExtract == InitExtract /\ [][NextExtract]_vars

(***************************************************************************)
(* The lines of a text by position: a segment <<i, j>> is a non-empty      *)
(* maximal run of characters with no line break.                           *)
(***************************************************************************)
Segments(text) ==
    {seg \in (1..Len(text)) \X (1..Len(text)) :
        /\ seg[1] <= seg[2]
        /\ seg[1] = 1 \/ text[seg[1] - 1] = "\n"
        /\ seg[2] = Len(text) \/ text[seg[2] + 1] = "\n"
        /\ \A k \in seg[1]..seg[2] : text[k] # "\n"}

PinSegments(text) ==
    {seg \in Segments(text) :
        /\ text[seg[1]] # "#"
        /\ \E k \in seg[1]..(seg[2] - 1) : text[k] = "=" /\ text[k + 1] = "="}

(***************************************************************************)
(* C8: the pin parser returns exactly the lines of the text that hold "==" *)
(* and are neither blank nor "#"-prefixed, in the order of the text and    *)
(* with nothing added; a line without "==" is left out wherever it stands. *)
(***************************************************************************)
C8_ExactlyThePinLines ==
    extraction.state = "parsed" =>
        LET text == freeze.stdout
            kept == PinSegments(text)
        IN  /\ Len(extraction.pins) = Cardinality(kept)
            /\ \A seg \in kept :
                   extraction.pins[1 + Cardinality({t \in kept : t[1] < seg[1]})]
                       = SubSeq(text, seg[1], seg[2])

\* a line without separator between two pins: the two pins are returned
C8_Witness ==
    /\ extraction.state = "parsed"
    /\ freeze.stdout = <<"=", "=", "\n", "a", "\n", "=", "=">>
    /\ extraction.pins = << <<"=", "=">>, <<"=", "=">> >>

(***************************************************************************)
(* C9: the version extraction never fails; it returns the empty list when  *)
(* the listing command exits non-zero, whatever its stdout holds, and when *)
(* the directory cannot be inspected.                                      *)
(***************************************************************************)
C9_ExtractionNeverFails ==
    extraction.state = "done" =>
        /\ ~extraction.raised
        /\ (freeze.returncode # 0 \/ ~freeze.inspectable) => extraction.pins = <<>>

\* a listing that exits non-zero with pins on its stdout
C9_Witness ==
    /\ extraction.state = "done"
    /\ freeze.returncode # 0
    /\ freeze.inspectable
    /\ PinSegments(freeze.stdout) # {}
    /\ extraction.pins = <<>>

(***************************************************************************)
(* utils.get_python_version.  The table PYTHON_COMPAT_VERSIONS is imported *)
(* from pywrangler.metadata; its two entries follow the description of the *)
(* supported versions (two minor versions, each with an enabling flag, the *)
(* newer one with an implicit-enable date).                                *)
(***************************************************************************)
PYTHON_COMPAT_VERSIONS ==
    <<[version |-> "3.12", compat_flag |-> "python_workers",
       compat_date |-> NoDate],
      [version |-> "3.13", compat_flag |-> "python_workers_20250116",
       compat_date |-> Date(2025, 9, 29)]>>

\* the characters of a version string, as code points: sorted() compares the
\* version strings character by character
CodePoints(version) ==
    CASE version = "3.12" -> <<51, 46, 49, 50>>
      [] version = "3.13" -> <<51, 46, 49, 51>>

\* a < b for two strings given by their code points
StrLess(a, b) ==
    \E k \in 1..(Len(b)) :
        /\ \A j \in 1..(k - 1) : j <= Len(a) /\ a[j] = b[j]
        /\ k > Len(a) \/ a[k] < b[k]

\* sorted(entries, key=lambda x: x.version, reverse=True): a stable sort
RECURSIVE SortedByVersionDesc(_)
SortedByVersionDesc(entries) ==
    IF entries = <<>> THEN <<>>
    ELSE LET rest == SortedByVersionDesc(Tail(entries))
             x == Head(entries)
             \* x goes before the first entry whose key is not greater than x's
             before == {k \in 1..Len(rest) :
                          ~StrLess(CodePoints(x.version), CodePoints(rest[k].version))}
             at == IF before = {} THEN Len(rest) + 1
                   ELSE CHOOSE k \in before : \A j \in before : k <= j
         IN  SubSeq(rest, 1, at - 1) \o <<x>> \o SubSeq(rest, at, Len(rest))

IsLeap(y) == (y % 4 = 0 /\ y % 100 # 0) \/ y % 400 = 0

DaysInMonth(y, m) ==
    IF m = 2 THEN (IF IsLeap(y) THEN 29 ELSE 28)
    ELSE IF m \in {4, 6, 9, 11} THEN 30 ELSE 31

\* a faulty parse: the month is not checked
StrptimeFails_month_unchecked(text) ==
    \/ text.y < 1
    \/ text.d < 1
    \/ text.d > DaysInMonth(text.y, text.m)

\* datetime.strptime(text, "%Y-%m-%d") raises ValueError
StrptimeFails(text) ==
    \/ text.y < 1
    \/ text.m \notin 1..12
    \/ text.d < 1
    \/ text.d > DaysInMonth(text.y, text.m)

\* a >= b for two datetimes
DateGeq(a, b) ==
    \/ a.y > b.y
    \/ a.y = b.y /\ a.m > b.m
    \/ a.y = b.y /\ a.m = b.m /\ a.d >= b.d

\* a faulty test of one version: the flag counts only once the compatibility
\* date has reached the version's date
VersionSelected_date_required(py_version, compat_flags, compat_date) ==
    /\ py_version.compat_flag \in compat_flags
    /\ py_version.compat_date.given => DateGeq(compat_date, py_version.compat_date)

\* the two tests of the loop body for one version
VersionSelected(py_version, compat_flags, compat_date) ==
    \/ py_version.compat_flag \in compat_flags
    \/ py_version.compat_date.given /\ DateGeq(compat_date, py_version.compat_date)

Raise(code) == [state |-> "called", raised |-> TRUE, code |-> code,
                version |-> NoVersion, cached |-> FALSE]

Return(version) == [state |-> "called", raised |-> FALSE, code |-> 0,
                    version |-> version, cached |-> FALSE]

\* a faulty body: every configuration, even none, gives a version
get_python_version_body_lenient(cfg) == Return("3.12")

\* the body of get_python_version, run when the cache holds nothing
get_python_version_body(cfg) ==
    IF ~cfg.present THEN Raise(1)
    ELSE IF ~cfg.compatibility_date.given THEN Raise(1)
    ELSE IF StrptimeFails(cfg.compatibility_date) THEN Raise(1)
    ELSE IF "python_workers" \notin cfg.compatibility_flags THEN Raise(1)
    ELSE LET sorted_versions == SortedByVersionDesc(PYTHON_COMPAT_VERSIONS)
             hits == {k \in 1..Len(sorted_versions) :
                         VersionSelected(sorted_versions[k], cfg.compatibility_flags,
                                         cfg.compatibility_date)}
         IN  IF hits = {} THEN Raise(1)
             ELSE Return(sorted_versions[CHOOSE k \in hits : \A j \in hits : k <= j].version)

CompatFlags == {"python_workers", "python_workers_20250116", "nodejs_compat"}

\* the compatibility_date strings tried: around the implicit-enable date of
\* 3.13, and two that are no dates (month 13; 31 September)
DateStrings ==
    {NoDate} \cup {Date(2025, m, d) : m \in {9, 13}, d \in {28, 29, 31}}
             \cup {Date(2024, 9, 30), Date(2026, 1, 1)}

Configs ==
    {NoConfig} \cup [present : {TRUE}, compatibility_date : DateStrings,
                     compatibility_flags : SUBSET CompatFlags]

InitVersion ==
    /\ SyncInit
    /\ ExtractIdle
    /\ RunIdle
    /\ FsIdle
    /\ CliIdle
    /\ config \in Configs
    /\ versionCache = NoVersion
    /\ versionCall = NoCall
    /\ edits = 0
    /\ derived = NoNames

\* a faulty get_python_version: the body runs at every call
get_python_version_uncached(cache, cfg) == get_python_version_body(cfg)

\* @cache on get_python_version: functools.cache returns what an earlier
\* successful call returned, and keeps nothing of a call that raised
get_python_version_cached(cache, cfg) ==
    IF cache # NoVersion
    THEN [Return(cache) EXCEPT !.cached = TRUE]
    ELSE get_python_version_body(cfg)

\* what the cache holds after the call
CacheAfter(cache, call) == IF call.raised THEN cache ELSE call.version

\* get_python_version() is called
get_python_version ==
    /\ versionCall.state = "none"
    /\ LET r == get_python_version_cached(versionCache, config)
       IN  /\ versionCall' = r
           /\ versionCache' = CacheAfter(versionCache, r)
    /\ UNCHANGED <<config, edits, derived>>
    /\ UNCHANGED <<syncVars, extractVars, runVars, tokenTime, fsVars, staleVars, cliVars>>

\* the interpreter uv installs for the pyodide venv
InterpName(version) ==
    CASE version = "3.12" -> "cpython-3.12.7-emscripten-wasm32-musl"
      [] version = "3.13" -> "cpython-3.13.2-emscripten-wasm32-musl"

\* the extra package index of the cross-compiled install
PyodideIndex(version) ==
    CASE version = "3.12" -> "https://index.pyodide.org/0.27.7"
      [] version = "3.13" -> "https://index.pyodide.org/0.28.3"

\* the directory copied to python_modules, relative to the pyodide venv
SitePackages(version) ==
    CASE version = "3.12" -> "lib/python3.12/site-packages"
      [] version = "3.13" -> "lib/python3.13/site-packages"

\* get_uv_pyodide_interp_name(): calls get_python_version()
get_uv_pyodide_interp_name ==
    /\ derived.interp = NoName
    /\ LET r == get_python_version_cached(versionCache, config)
       IN  /\ versionCache' = CacheAfter(versionCache, r)
           /\ derived' = IF r.raised THEN derived
                          ELSE [derived EXCEPT !.interp = InterpName(r.version)]
    /\ UNCHANGED <<config, versionCall, edits>>
    /\ UNCHANGED <<syncVars, extractVars, runVars, tokenTime, fsVars, staleVars, cliVars>>

\* get_pyodide_index(): calls get_python_version()
get_pyodide_index ==
    /\ derived.index = NoName
    /\ LET r == get_python_version_cached(versionCache, config)
       IN  /\ versionCache' = CacheAfter(versionCache, r)
           /\ derived' = IF r.raised THEN derived
                          ELSE [derived EXCEPT !.index = PyodideIndex(r.version)]
    /\ UNCHANGED <<config, versionCall, edits>>
    /\ UNCHANGED <<syncVars, extractVars, runVars, tokenTime, fsVars, staleVars, cliVars>>

\* pyv = get_python_version() and the path built from it in the vendor install
site_packages_path ==
    /\ derived.site = NoName
    /\ LET r == get_python_version_cached(versionCache, config)
       IN  /\ versionCache' = CacheAfter(versionCache, r)
           /\ derived' = IF r.raised THEN derived
                          ELSE [derived EXCEPT !.site = SitePackages(r.version)]
    /\ UNCHANGED <<config, versionCall, edits>>
    /\ UNCHANGED <<syncVars, extractVars, runVars, tokenTime, fsVars, staleVars, cliVars>>

\* the user rewrites wrangler.toml or wrangler.jsonc
EditConfig ==
    /\ edits < MaxEdits
    /\ versionCall.state = "called"
    /\ \E cfg \in Configs : config' = cfg
    /\ versionCall' = NoCall
    /\ edits' = edits + 1
    /\ UNCHANGED <<versionCache, derived>>
    /\ UNCHANGED <<syncVars, extractVars, runVars, tokenTime, fsVars, staleVars, cliVars>>

NextVersion ==
    \/ get_python_version
    \/ get_uv_pyodide_interp_name
    \/ get_pyodide_index
    \/ site_packages_path
    \/ EditConfig

SpecVersion == InitVersion /\ [][NextVersion]_vars

\* the minor number of a supported version: 3.13 is newer than 3.12
Minor(version) == CASE version = "3.12" -> 12 [] version = "3.13" -> 13

\* the configuration passes the checks made before the versions are tried
ConfigUsable(cfg) ==
    /\ cfg.present
    /\ cfg.compatibility_date.given
    /\ ~StrptimeFails(cfg.compatibility_date)
    /\ "python_workers" \in cfg.compatibility_flags

\* the supported versions the configuration enables, by flag or by date
Enabled(cfg) ==
    {e \in Range(PYTHON_COMPAT_VERSIONS) :
        \/ e.compat_flag \in cfg.compatibility_flags
        \/ /\ e.compat_date.given
           /\ 10000 * cfg.compatibility_date.y + 100 * cfg.compatibility_date.m
                + cfg.compatibility_date.d
              >= 10000 * e.compat_date.y + 100 * e.compat_date.m + e.compat_date.d}

(***************************************************************************)
(* C10: get_python_version returns the newest supported version whose flag *)
(* is in compatibility_flags or whose implicit-enable date exists and is   *)
(* on or before the compatibility date; the flag of the newer version      *)
(* selects it even when the compatibility date is before its date.         *)
(***************************************************************************)
C10_NewestEnabledVersion ==
    (versionCall.state = "called" /\ ~versionCall.cached /\ ConfigUsable(config)) =>
        /\ Enabled(config) # {} =>
              /\ ~versionCall.raised
              /\ \E e \in Enabled(config) :
                    /\ versionCall.version = e.version
                    /\ \A o \in Enabled(config) : Minor(o.version) <= Minor(e.version)
        /\ "python_workers_20250116" \in config.compatibility_flags =>
              versionCall.version = "3.13"

\* the flag of 3.13 with a compatibility date before 2025-09-29
C10_Witness ==
    /\ versionCall.state = "called"
    /\ ~versionCall.cached
    /\ config.compatibility_date = Date(2025, 9, 28)
    /\ config.compatibility_flags = {"python_workers", "python_workers_20250116"}
    /\ versionCall.version = "3.13"


\* the text is a date of the calendar, written YYYY-MM-DD
IsCalendarDate(text) ==
    /\ text.y \in 1..9999
    /\ text.m \in 1..12
    /\ text.d \in 1..(CASE text.m \in {4, 6, 9, 11} -> 30
                        [] text.m = 2 ->
                             IF text.y % 4 = 0 /\ (text.y % 100 # 0 \/ text.y % 400 = 0)
                             THEN 29 ELSE 28
                        [] OTHER -> 31)

C13_OneVersionPerProcess ==
    /\ (versionCall.state = "called" /\ versionCall.cached) =>
           /\ ~versionCall.raised
           /\ versionCall.version = versionCache
    /\ (versionCall.state = "called" /\ ~versionCall.raised) =>
           versionCall.version = versionCache
    /\ derived.interp # NoName => /\ versionCache # NoVersion
                                  /\ derived.interp = InterpName(versionCache)
    /\ derived.index # NoName => /\ versionCache # NoVersion
                                 /\ derived.index = PyodideIndex(versionCache)
    /\ derived.site # NoName => /\ versionCache # NoVersion
                                /\ derived.site = SitePackages(versionCache)

\* the configuration on disk now selects 3.13, the process keeps 3.12: the
\* call answered after the rewrite and the three names are those of 3.12
C13_Witness ==
    /\ versionCache = "3.12"
    /\ edits > 0
    /\ ~get_python_version_body(config).raised
    /\ get_python_version_body(config).version = "3.13"
    /\ versionCall.state = "called"
    /\ versionCall.cached
    /\ versionCall.version = "3.12"
    /\ derived = [interp |-> InterpName("3.12"), index |-> PyodideIndex("3.12"),
                  site |-> SitePackages("3.12")]

(***************************************************************************)
(* C14: neither installer ends the run when its installer process exits    *)
(* non-zero: the failure is returned to install_requirements, so that both *)
(* installs are attempted and the run is aborted only after both.          *)
(***************************************************************************)
C14_InstallersReturnFailure ==
    (pc = "aborted" /\ uvOnPath /\ (CrossFails \/ NativeFails)) =>
        /\ CallsOf("vendor") # {}
        /\ CallsOf("venv") # {}

(***************************************************************************)
(* The staleness check of sync.py: is_sync_needed compares the st_mtime of *)
(* pyproject.toml with that of the two tokens.                             *)
(***************************************************************************)
\* get_vendor_token_path(): python_modules/.synced
VendorToken(dir, times) == [exists |-> ".synced" \in dir.entries, mtime |-> times.vendor]

\* get_venv_workers_token_path(): .venv-workers/.synced
VenvToken(token, times) == [exists |-> token, mtime |-> times.venv]

\* a faulty comparison: a token as old as the manifest counts as out of date
_is_out_of_date_nonstrict(token, time) ==
    IF ~token.exists THEN TRUE ELSE time >= token.mtime

_is_out_of_date(token, time) ==
    IF ~token.exists THEN TRUE ELSE time > token.mtime

\* find_pyproject_toml(): the cached path, or the search, which raises
\* Exit(1) when it finds no pyproject.toml
find_pyproject_toml(cached, mf) ==
    IF cached \/ mf.exists
    THEN [raised |-> FALSE, code |-> 0]
    ELSE [raised |-> TRUE, code |-> 1]

\* the value is_sync_needed returns once the path is known
is_sync_needed_value(mf, vendor_token, venv_token) ==
    IF ~mf.exists
    THEN TRUE
    ELSE \/ _is_out_of_date(vendor_token, mf.mtime)
         \/ _is_out_of_date(venv_token, mf.mtime)

\* the project directories the check is tried on: tokens absent or written
\* at some time, the manifest absent or written at some time
InitStale ==
    /\ pc = "idle"
    /\ requirements = <<>>
    /\ uvOnPath = TRUE
    /\ vendorProc = ProcOk
    /\ venvProc = ProcOk
    /\ calls = <<>>
    /\ output = <<>>
    /\ exitCode = 0
    /\ pyodideSite = {}
    /\ venvPkgs = {}
    /\ runs = 0
    /\ killed = FALSE
    /\ ExtractIdle
    /\ RunIdle
    /\ VersionIdle
    /\ CliIdle
    /\ vendorDir \in {NoDir, Dir({}), Dir({"pyvenv.cfg", ".synced"})}
    /\ venvToken \in BOOLEAN
    /\ tokenTime \in [vendor : 0..MaxClock, venv : 0..MaxClock]
    /\ ".synced" \notin vendorDir.entries => tokenTime.vendor = 0
    /\ ~venvToken => tokenTime.venv = 0
    /\ manifest \in {NoManifest} \cup {Manifest(TRUE, <<>>, t) : t \in 0..MaxClock}
    /\ now = MaxClock
    /\ workersVenv = NoVenv
    /\ pyodideVenv = FALSE
    /\ pathCached \in BOOLEAN
    /\ syncCheck = NoCheck

is_sync_needed ==
    /\ syncCheck.state = "none"
    /\ LET path == find_pyproject_toml(pathCached, manifest)
       IN  /\ pathCached' = ~path.raised
           /\ syncCheck' =
                [state |-> "called", raised |-> path.raised,
                 needed |-> IF path.raised THEN FALSE
                            ELSE is_sync_needed_value(manifest,
                                     VendorToken(vendorDir, tokenTime),
                                     VenvToken(venvToken, tokenTime))]
    /\ UNCHANGED <<syncVars, extractVars, runVars, versionVars, tokenTime, fsVars, cliVars>>

NextStale == is_sync_needed

SpecStale == InitStale /\ [][NextStale]_vars

C15_EmptyListMarksVendor ==
    (requirements = <<>> /\ CallsOf("vendor") # {} /\ pc # "vendor") =>
        /\ pc # "aborted" \/ CallsOf("venv") # {}
        /\ ".synced" \in vendorDir.entries
        /\ ~_is_out_of_date(VendorToken(vendorDir, tokenTime), manifest.mtime)

(***************************************************************************)
(* The command line of cli.py: `sync [--force]`, and `dev`, `publish`,     *)
(* `deploy`, which run sync_command and then hand over to wrangler.  Each  *)
(* command line is a new process, so what functools.cache holds is gone.   *)
(* check_pyproject_toml, check_timestamps, install_pyodide_build and       *)
(* generate_requirements are imported by cli.py from pywrangler.sync but   *)
(* are not in sync.py at this revision.                                    *)
(***************************************************************************)
\* the commands registered on the click group
Subcommands == {"sync", "dev", "publish", "deploy"}

\* the commands that hand over to wrangler
ProxyCommands == {"dev", "publish", "deploy"}

\* the first words of the command lines tried
CommandNames == Subcommands \cup {"unknown_command"}

\* the remaining words of the command lines tried
ArgLists == {<<>>, <<"--some-flag", "value">>}

\* what subprocess.run(["npx", "wrangler", ...], check=False) meets
NpxProcs == {[found |-> FALSE, returncode |-> 0]} \cup [found : {TRUE}, returncode : {0, 3}]

\* the wrangler configurations of the projects tried: none, one selecting
\* 3.12 and one selecting 3.13
SyncConfigs ==
    {NoConfig,
     [present |-> TRUE, compatibility_date |-> Date(2025, 9, 28),
      compatibility_flags |-> {"python_workers"}],
     [present |-> TRUE, compatibility_date |-> Date(2025, 9, 29),
      compatibility_flags |-> {"python_workers"}]}

\* the [project.dependencies] of the manifests tried
ManifestDependencies == {<<>>, <<"numpy">>, <<"shapely">>}

\* pyproject.toml as it can be at time t: missing, not TOML, or well-formed
ManifestsAt(t) ==
    {NoManifest, Manifest(FALSE, <<>>, t)}
        \cup {Manifest(TRUE, deps, t) : deps \in ManifestDependencies}

\* the installer outcomes tried under the command line
SyncVendorProcs == {ProcOk, [returncode |-> 2, text |-> {"Pyodide install failed"}]}

SyncVenvProcs == {ProcOk, [returncode |-> 1, text |-> {"Native install failed"}]}

InitSync ==
    /\ pc = "idle"
    /\ requirements = <<>>
    /\ uvOnPath = TRUE
    /\ vendorProc = ProcOk
    /\ venvProc = ProcOk
    /\ calls = <<>>
    /\ output = <<>>
    /\ exitCode = 0
    /\ runs = 0
    /\ killed = FALSE
    /\ ExtractIdle
    /\ RunIdle
    /\ CliIdle
    /\ config \in SyncConfigs
    /\ versionCache = NoVersion
    /\ versionCall = NoCall
    /\ edits = 0
    /\ derived = NoNames
    /\ now = 0
    /\ manifest \in ManifestsAt(0)
    /\ tokenTime = NoTimes
    \* a fresh project directory, or what a sync of shapely has left, with
    \* an interpreter of some version or a broken one in .venv-workers
    /\ \/ /\ workersVenv = NoVenv
          /\ pyodideVenv = FALSE
          /\ pyodideSite = {}
          /\ vendorDir = NoDir
          /\ venvPkgs = {}
          /\ venvToken = FALSE
       \/ /\ workersVenv \in {Venv(NoVersion), Venv("Python 3.12.7"),
                               Venv("Python 3.13.12")}
          /\ pyodideVenv = TRUE
          /\ pyodideSite = {"shapely"}
          /\ vendorDir = Dir({"shapely"} \cup VendorExtras)
          /\ venvPkgs = {"shapely", "pyodide-py"}
          /\ venvToken = TRUE
    /\ pathCached = FALSE
    /\ syncCheck = NoCheck

\* a faulty hand-over: wrangler is started whether or not the sync aborted
AfterSync_ignoring_abort(name, aborted) ==
    IF name \in ProxyCommands THEN "proxy" ELSE "exited"

\* where the process goes when sync_command ends: an Exit raised in it
\* passes through ctx.invoke and ends the process
AfterSync(name, aborted) ==
    IF aborted THEN "exited"
    ELSE IF name \in ProxyCommands THEN "proxy" ELSE "exited"

SyncEnds(aborted, code) ==
    /\ stage' = AfterSync(command.name, aborted)
    /\ syncState' = IF aborted THEN "aborted" ELSE "returned"
    /\ cliExit' = code

\* app(): a new process; click resolves the first word, and a word that
\* is no subcommand of the group is a usage error (exit code 2)
app ==
    /\ stage = "idle"
    /\ runs < MaxRuns
    /\ \E name \in CommandNames, args \in ArgLists, force \in BOOLEAN, found \in BOOLEAN :
        /\ force => name = "sync"
        /\ name = "sync" => args = <<>>
        /\ command' = [name |-> name, args |-> args, force |-> force]
        /\ uvOnPath' = found
        /\ IF name \in Subcommands
           THEN /\ stage' = "sync_command"
                /\ cliExit' = 0
                /\ output' = <<>>
           ELSE /\ stage' = "exited"
                /\ cliExit' = 2
                /\ output' = <<{"No such command"}>>
    /\ runs' = runs + 1
    /\ UNCHANGED killed
    /\ UNCHANGED <<pc, requirements, vendorProc, venvProc, calls, exitCode, pyodideSite,
                   vendorDir, venvPkgs, venvToken>>
    /\ UNCHANGED <<extractVars, runVars, versionVars, tokenTime, fsVars, staleVars, syncState,
                   proxied>>

\* the process is gone, and with it what it held in memory
ProcessEnds ==
    /\ stage = "exited"
    /\ stage' = "idle"
    /\ command' = NoCommand
    /\ syncState' = "none"
    /\ proxied' = <<>>
    /\ cliExit' = 0
    /\ pc' = "idle"
    /\ requirements' = <<>>
    /\ uvOnPath' = TRUE
    /\ vendorProc' = ProcOk
    /\ venvProc' = ProcOk
    /\ calls' = <<>>
    /\ output' = <<>>
    /\ exitCode' = 0
    /\ versionCache' = NoVersion
    /\ versionCall' = NoCall
    /\ derived' = NoNames
    /\ pathCached' = FALSE
    /\ syncCheck' = NoCheck
    /\ UNCHANGED <<pyodideSite, vendorDir, venvPkgs, venvToken, runs, killed, tokenTime,
                   config, edits, fsVars, extractVars, runVars>>

\* sync_command up to the decision whether to synchronise: `force or
\* check_timestamps()` does not call check_timestamps when force is set
sync_command ==
    /\ stage = "sync_command"
    /\ LET path == find_pyproject_toml(pathCached, manifest)
           needed == is_sync_needed_value(manifest, VendorToken(vendorDir, tokenTime),
                                          VenvToken(venvToken, tokenTime))
       IN  IF path.raised
           THEN /\ output' = output \o <<{"Starting sync process..."},
                                         {"pyproject.toml not found"}>>
                /\ SyncEnds(TRUE, path.code)
                /\ UNCHANGED <<pathCached, syncCheck>>
           ELSE /\ pathCached' = TRUE
                /\ syncCheck' = IF command.force THEN syncCheck
                                ELSE [state |-> "called", raised |-> FALSE,
                                      needed |-> needed]
                /\ IF command.force \/ needed
                   THEN /\ output' = Append(output, {"Starting sync process..."})
                        /\ stage' = "create_workers_venv"
                        /\ syncState' = "running"
                        /\ UNCHANGED cliExit
                   ELSE /\ output' = output \o <<{"Starting sync process..."},
                                                 {"pyproject.toml hasn't changed since last sync"}>>
                        /\ SyncEnds(FALSE, 0)
    /\ UNCHANGED <<pc, requirements, uvOnPath, vendorProc, venvProc, calls, exitCode,
                   pyodideSite, vendorDir, venvPkgs, venvToken, runs, killed>>
    /\ UNCHANGED <<extractVars, runVars, versionVars, tokenTime, fsVars, command, proxied>>

\* what get_python_version logs before it raises
VersionErrorText(cfg) ==
    IF ~cfg.present THEN {"No wrangler config found"}
    ELSE IF ~cfg.compatibility_date.given
    THEN {"No compatibility_date specified in wrangler config"}
    ELSE IF StrptimeFails(cfg.compatibility_date)
    THEN {"Invalid compatibility_date format"}
    ELSE IF "python_workers" \notin cfg.compatibility_flags
    THEN {"python_workers compat flag not specified in wrangler config"}
    ELSE {"Could not determine Python version from wrangler config"}

\* what .venv-workers holds beside its interpreter: the token and its
\* time, the installed packages, the pyodide venv and its site-packages
VenvContents(token, time, pkgs, pyodide, site) ==
    [token |-> token, time |-> time, pkgs |-> pkgs, pyodide |-> pyodide,
     site |-> site]

\* a faulty removal: only the interpreter is replaced
rmtree_interpreter_only(contents) == contents

\* shutil.rmtree(venv_workers_path): all that is inside goes with it
rmtree(contents) == VenvContents(FALSE, 0, {}, FALSE, {})

\* the warning logged before an existing .venv-workers is removed
RecreatingWarning(venv) ==
    IF ~venv.exists THEN <<>>
    ELSE IF venv.python = NoVersion
    THEN << {"Could not determine python version", "recreating"} >>
    ELSE << {"Recreating virtual environment", "Python version mismatch"} >>

\* create_workers_venv(): the runtime version first; .venv-workers is
\* kept when its python reports that version, else removed and created.
\* With .venv-workers go its token, its packages and the pyodide venv.
create_workers_venv ==
    /\ stage = "create_workers_venv"
    /\ LET v == get_python_version_cached(versionCache, config)
           c == run_command(uvOnPath, ProcOk, TRUE, FALSE)
       IN  /\ versionCall' = v
           /\ versionCache' = CacheAfter(versionCache, v)
           /\ IF v.raised
              THEN /\ output' = Append(output, VersionErrorText(config))
                   /\ SyncEnds(TRUE, v.code)
                   /\ UNCHANGED <<workersVenv, pyodideVenv, pyodideSite, venvPkgs,
                                  venvToken, tokenTime>>
              ELSE IF VenvIsKept(workersVenv, v.version)
              THEN /\ stage' = "install_pyodide_build"
                   /\ UNCHANGED <<output, syncState, cliExit, workersVenv, pyodideVenv,
                                  pyodideSite, venvPkgs, venvToken, tokenTime>>
              ELSE LET inside == rmtree(VenvContents(venvToken, tokenTime.venv,
                                                     venvPkgs, pyodideVenv, pyodideSite))
                       warned == output \o RecreatingWarning(workersVenv)
                   IN  /\ pyodideVenv' = inside.pyodide
                       /\ pyodideSite' = inside.site
                       /\ venvPkgs' = inside.pkgs
                       /\ venvToken' = inside.token
                       /\ tokenTime' = [tokenTime EXCEPT !.venv = inside.time]
                       /\ IF c.raised
                          THEN /\ output' = warned \o c.printed
                               /\ workersVenv' = NoVenv
                               /\ SyncEnds(TRUE, c.code)
                          ELSE /\ output' = warned
                               /\ workersVenv' = Venv(PythonOf(v.version))
                               /\ stage' = "install_pyodide_build"
                               /\ UNCHANGED <<syncState, cliExit>>
    /\ UNCHANGED <<pc, requirements, uvOnPath, vendorProc, venvProc, calls, exitCode,
                   vendorDir, runs, killed>>
    /\ UNCHANGED <<extractVars, runVars, config, edits, derived, now, manifest, staleVars,
                   command, proxied>>

\* install_pyodide_build(): not in sync.py at this revision; nothing the
\* later steps read is changed by it
install_pyodide_build ==
    /\ stage = "install_pyodide_build"
    /\ stage' = "create_pyodide_venv"
    /\ UNCHANGED <<syncVars, extractVars, runVars, versionVars, tokenTime, fsVars, staleVars,
                   command, syncState, proxied, cliExit>>

\* create_pyodide_venv(): nothing to do when the directory is there; else
\* uv --version, uv python install and uv venv with the interpreter of the
\* cached runtime version
create_pyodide_venv ==
    /\ stage = "create_pyodide_venv"
    /\ IF pyodideVenv
       THEN /\ stage' = "generate_requirements"
            /\ UNCHANGED <<output, syncState, cliExit, pyodideVenv, derived>>
       ELSE LET c == run_command(uvOnPath, ProcOk, TRUE, TRUE)
                v == get_python_version_cached(versionCache, config)
            IN  IF c.raised
                THEN /\ output' = output \o c.printed
                     /\ SyncEnds(TRUE, c.code)
                     /\ UNCHANGED <<pyodideVenv, derived>>
                ELSE /\ derived' = [derived EXCEPT !.interp = InterpName(v.version)]
                     /\ pyodideVenv' = TRUE
                     /\ stage' = "generate_requirements"
                     /\ UNCHANGED <<output, syncState, cliExit>>
    /\ UNCHANGED <<pc, requirements, uvOnPath, vendorProc, venvProc, calls, exitCode,
                   pyodideSite, vendorDir, venvPkgs, venvToken, runs, killed>>
    /\ UNCHANGED <<extractVars, runVars, config, versionCache, versionCall, edits, tokenTime,
                   now, manifest, workersVenv, staleVars, command, proxied>>

\* has_requirements = generate_requirements(), and install_requirements()
\* when it is true: the dependencies are read from pyproject.toml
generate_requirements ==
    /\ stage = "generate_requirements"
    /\ IF ~manifest.valid
       THEN /\ output' = Append(output, {"Error parsing pyproject.toml"})
            /\ SyncEnds(TRUE, 1)
            /\ UNCHANGED <<pc, requirements, vendorProc, venvProc>>
       ELSE IF Len(manifest.dependencies) = 0
       THEN /\ output' = Append(output, {"No dependencies found in [project.dependencies]"})
            /\ SyncEnds(FALSE, 0)
            /\ UNCHANGED <<pc, requirements, vendorProc, venvProc>>
       ELSE /\ \E vp \in SyncVendorProcs, np \in SyncVenvProcs :
                /\ vendorProc' = vp
                /\ venvProc' = np
            /\ requirements' = manifest.dependencies
            /\ pc' = install_requirements_steps[1]
            /\ stage' = "install_requirements"
            /\ UNCHANGED <<output, syncState, cliExit>>
    /\ UNCHANGED <<uvOnPath, calls, exitCode, pyodideSite, vendorDir, venvPkgs,
                   venvToken, runs, killed>>
    /\ UNCHANGED <<extractVars, runVars, versionVars, tokenTime, fsVars, staleVars, command,
                   proxied>>

\* install_requirements() has returned or raised: sync_command ends
sync_command_ends ==
    /\ stage = "install_requirements"
    /\ pc \in {"done", "aborted"}
    /\ IF pc = "aborted"
       THEN /\ SyncEnds(TRUE, exitCode)
            /\ UNCHANGED output
       ELSE /\ SyncEnds(FALSE, 0)
            /\ output' = Append(output, {"Sync process completed successfully."})
    /\ UNCHANGED <<pc, requirements, uvOnPath, vendorProc, venvProc, calls, exitCode,
                   pyodideSite, vendorDir, venvPkgs, venvToken, runs, killed>>
    /\ UNCHANGED <<extractVars, runVars, versionVars, tokenTime, fsVars, staleVars, command,
                   proxied>>

\* a faulty exit: the return code of wrangler is dropped
ProxyExit_always_zero(p) == 0

\* ctx.exit(process.returncode), or ctx.exit(1) on FileNotFoundError
ProxyExit(p) == IF p.found THEN p.returncode ELSE 1

\* _proxy_to_wrangler(command_name, args_list): the exit code is wrangler's,
\* or 1 when npx is not found
_proxy_to_wrangler ==
    /\ stage = "proxy"
    /\ \E p \in NpxProcs :
        /\ proxied' = Append(proxied,
                         [argv |-> <<"npx", "wrangler", command.name>> \o command.args,
                          found |-> p.found, returncode |-> p.returncode])
        /\ cliExit' = ProxyExit(p)
    /\ stage' = "exited"
    /\ UNCHANGED <<syncVars, extractVars, runVars, versionVars, tokenTime, fsVars, staleVars,
                   command, syncState>>

\* time passes between two command lines
Tick ==
    /\ stage = "idle"
    /\ now < MaxClock
    /\ now' = now + 1
    /\ UNCHANGED <<syncVars, extractVars, runVars, versionVars, tokenTime, manifest,
                   workersVenv, pyodideVenv, staleVars, cliVars>>

\* the user writes, rewrites or removes pyproject.toml between two command lines
EditManifest ==
    /\ stage = "idle"
    /\ edits < MaxEdits
    /\ \E mf \in ManifestsAt(now) :
        /\ [mf EXCEPT !.mtime = 0] # [manifest EXCEPT !.mtime = 0]
        /\ manifest' = mf
    /\ edits' = edits + 1
    /\ UNCHANGED <<syncVars, extractVars, runVars, config, versionCache, versionCall, derived,
                   tokenTime, now, workersVenv, pyodideVenv, staleVars, cliVars>>

NextSync ==
    \/ app
    \/ sync_command
    \/ create_workers_venv
    \/ install_pyodide_build
    \/ create_pyodide_venv
    \/ generate_requirements
    \/ _install_requirements_to_vendor
    \/ _install_requirements_to_venv
    \/ sync_command_ends
    \/ _proxy_to_wrangler
    \/ ProcessEnds
    \/ Tick
    \/ EditManifest

SpecSync == InitSync /\ [][NextSync]_vars

(***************************************************************************)
(* Vocabulary of the claims about the command line.                        *)
(***************************************************************************)
\* the runtime version cannot be resolved from the configuration
ConfigError == ~ConfigUsable(config) \/ Enabled(config) = {}

\* pyproject.toml is missing or is not TOML
ManifestError == ~manifest.exists \/ ~manifest.valid

\* the sync of this process goes past the staleness check
SyncWanted ==
    \/ command.force
    \/ syncCheck.state = "called" /\ syncCheck.needed

\* what _proxy_to_wrangler is to run for this command line
WranglerArgv == <<"npx", "wrangler", command.name>> \o command.args

(***************************************************************************)
(* C12: a configuration error or a manifest error aborts the sync before   *)
(* any installer is invoked: no install into the native or the             *)
(* cross-compiled environment starts before the runtime version has been   *)
(* resolved successfully in this process.  (A sync that stops at the       *)
(* staleness check reads neither the configuration nor the dependencies.)  *)
(***************************************************************************)
C12_NoInstallBeforeVersion ==
    /\ (pc # "idle" \/ calls # <<>> \/ stage = "install_requirements") =>
           /\ versionCache # NoVersion
           /\ ~ConfigError
           /\ ~ManifestError
    /\ (stage = "exited" /\ syncState # "none" /\ ~manifest.exists) =>
           /\ syncState = "aborted"
           /\ cliExit = 1
           /\ calls = <<>>
    /\ (stage = "exited" /\ syncState # "none" /\ manifest.exists
            /\ SyncWanted /\ (ConfigError \/ ManifestError)) =>
           /\ syncState = "aborted"
           /\ cliExit = 1
           /\ calls = <<>>

\* sync --force in a project with dependencies and no wrangler configuration:
\* the process has exited with code 1 and no installer was invoked
C12_Witness ==
    /\ stage = "exited"
    /\ command.name = "sync"
    /\ command.force
    /\ uvOnPath
    /\ config = NoConfig
    /\ manifest.exists /\ manifest.valid /\ manifest.dependencies # <<>>
    /\ versionCall.state = "called" /\ versionCall.raised
    /\ syncState = "aborted"
    /\ cliExit = 1
    /\ calls = <<>>

(***************************************************************************)
(* C16: a completion marker is written only on success: the vendor marker  *)
(* is created or updated only by a cross-compiled install that succeeded   *)
(* and whose package directory was copied, the native marker only by a     *)
(* native install that succeeded; a failed install writes no marker.       *)
(***************************************************************************)
C16_MarkersOnlyOnSuccess ==
    [][ /\ ( /\ ".synced" \in vendorDir'.entries
             /\ \/ ".synced" \notin vendorDir.entries
                \/ tokenTime'.vendor # tokenTime.vendor ) =>
               /\ pc = "vendor"
               /\ requirements # <<>>
               /\ uvOnPath
               /\ vendorProc.returncode = 0
               /\ pc' # "aborted"
               /\ Range(requirements) \subseteq pyodideSite'
               /\ vendorDir'.entries = pyodideSite' \cup VendorExtras
               /\ tokenTime'.vendor = now
        /\ ( /\ venvToken'
             /\ \/ ~venvToken
                \/ tokenTime'.venv # tokenTime.venv ) =>
               /\ pc = "venv"
               /\ uvOnPath
               /\ venvProc.returncode = 0
               /\ pc' # "aborted"
               /\ Range(requirements) \cup {"pyodide-py"} \subseteq venvPkgs'
               /\ tokenTime'.venv = now
      ]_vars

\* a cross-compiled install has failed at a later time than the markers of
\* an earlier sync were written: they are as they were
C16_Witness ==
    /\ pc = "aborted"
    /\ uvOnPath
    /\ vendorProc.returncode # 0
    /\ CallsOf("vendor") # {}
    /\ ".synced" \in vendorDir.entries
    /\ venvToken
    /\ tokenTime.vendor < now
    /\ tokenTime.venv < now

(***************************************************************************)
(* C18: the sync command calls install_requirements exactly once when      *)
(* --force is given or is_sync_needed is true, and never (exit code 0)     *)
(* when --force is absent and is_sync_needed is false.                     *)
(***************************************************************************)
C18_InstallOnceIffNeeded ==
    (stage = "exited" /\ command.name = "sync" /\ syncState = "returned") =>
        IF SyncWanted
        THEN /\ Cardinality(CallsOf("vendor")) = 1
             /\ Cardinality(CallsOf("venv")) = 1
        ELSE /\ calls = <<>>
             /\ cliExit = 0

(***************************************************************************)
(* C19: dev, publish and deploy run the sync, without force, first, and    *)
(* only then hand the command with its arguments, unchanged and in order,  *)
(* to wrangler; when the sync aborts, wrangler is never started.           *)
(***************************************************************************)
C19_SyncThenProxy ==
    command.name \in ProxyCommands =>
        /\ ~command.force
        /\ proxied # <<>> =>
               /\ syncState = "returned"
               /\ Len(proxied) = 1
               /\ proxied[1].argv = WranglerArgv
        /\ stage = "proxy" => syncState = "returned"
        /\ syncState = "aborted" => (proxied = <<>> /\ stage = "exited")
        /\ stage = "exited" => (syncState = "aborted" \/ Len(proxied) = 1)
        /\ (syncState # "none" /\ manifest.exists /\ ~SyncWanted) => calls = <<>>

\* dev --some-flag value: the sync installed the dependencies, then wrangler
\* was given the command line
C19_Witness ==
    /\ stage = "exited"
    /\ command.name = "dev"
    /\ command.args = <<"--some-flag", "value">>
    /\ syncState = "returned"
    /\ CallsOf("venv") # {}
    /\ Len(proxied) = 1
    /\ proxied[1].argv = <<"npx", "wrangler", "dev", "--some-flag", "value">>

(***************************************************************************)
(* C20: a command name that is none of the tool's subcommands is handed to *)
(* wrangler with the name and the remaining arguments unchanged and in     *)
(* order, and no sync is run.                                              *)
(***************************************************************************)
C20_UnknownCommandProxied ==
    (stage = "exited" /\ command.name \in CommandNames \ Subcommands) =>
        /\ syncState = "none"
        /\ Len(proxied) = 1
        /\ proxied[1].argv = WranglerArgv

(***************************************************************************)
(* C21: the wrangler proxy runs npx wrangler <command> <args> and the      *)
(* process exits with exactly the return code of the proxied process; when *)
(* the executable is not found it exits with code 1.                       *)
(***************************************************************************)
C21_ProxyExitCode ==
    (stage = "exited" /\ proxied # <<>>) =>
        LET p == proxied[Len(proxied)]
        IN  /\ p.argv = WranglerArgv
            /\ p.found => cliExit = p.returncode
            /\ ~p.found => cliExit = 1

\* wrangler deploy returned 3: so did the tool
C21_Witness ==
    /\ stage = "exited"
    /\ command.name = "deploy"
    /\ Len(proxied) = 1
    /\ proxied[1].found
    /\ proxied[1].returncode = 3
    /\ cliExit = 3

(***************************************************************************)
(* C22: after every successful sync, also of a manifest without            *)
(* dependencies, the native installer has been invoked and the native      *)
(* environment holds pyodide-py besides the declared dependencies.         *)
(***************************************************************************)
C22_NativeAlwaysHasPyodidePy ==
    (stage = "exited" /\ command.name = "sync" /\ syncState = "returned"
        /\ cliExit = 0 /\ SyncWanted) =>
        /\ CallsOf("venv") # {}
        /\ "pyodide-py" \in venvPkgs
        /\ Range(manifest.dependencies) \subseteq venvPkgs

(***************************************************************************)
(* C23: after a successful sync with a non-empty dependency list the       *)
(* vendor directory exists and holds every installed package and           *)
(* pyvenv.cfg; a sync with an empty dependency list places no package in   *)
(* the vendor directory and creates no pyvenv.cfg there.                   *)
(***************************************************************************)
C23_VendorContents ==
    /\ [](  (stage = "exited" /\ command.name \in Subcommands
                /\ syncState = "returned" /\ SyncWanted
                /\ manifest.dependencies # <<>>) =>
               /\ vendorDir.exists
               /\ Range(manifest.dependencies) \subseteq vendorDir.entries
               /\ pyodideSite \subseteq vendorDir.entries
               /\ "pyvenv.cfg" \in vendorDir.entries )
    /\ [][ (stage # "idle" /\ manifest.valid /\ manifest.dependencies = <<>>) =>
               vendorDir' = vendorDir ]_vars

\* a needed sync of a manifest with numpy has returned
C23_Witness ==
    /\ stage = "exited"
    /\ command.name = "sync"
    /\ syncState = "returned"
    /\ SyncWanted
    /\ manifest.dependencies = <<"numpy">>
    /\ vendorDir = Dir({"numpy", "pyvenv.cfg", ".synced"})

(***************************************************************************)
(* install_requirements invoked again and again with the same requirement  *)
(* list and the same installer outcomes, in processes that may be          *)
(* terminated at any point of an install.                                  *)
(***************************************************************************)
InitRerun ==
    /\ pc = "idle"
    /\ requirements \in RequirementLists
    /\ uvOnPath \in BOOLEAN
    /\ vendorProc \in VendorProcs
    /\ venvProc \in VenvProcs
    /\ calls = <<>>
    /\ output = <<>>
    /\ exitCode = 0
    /\ runs = 0
    /\ killed = FALSE
    \* a fresh project directory, or what a sync of shapely has left, or
    \* that with .venv-workers (and the pyodide venv in it) created anew
    \* since, as create_workers_venv does for another python version
    /\ \/ /\ pyodideSite = {}
          /\ vendorDir = NoDir
          /\ venvPkgs = {}
          /\ venvToken = FALSE
       \/ /\ pyodideSite = {"shapely"}
          /\ vendorDir = Dir({"shapely"} \cup VendorExtras)
          /\ venvPkgs = {"shapely", "pyodide-py"}
          /\ venvToken = TRUE
       \/ /\ pyodideSite = {}
          /\ vendorDir = Dir({"shapely"} \cup VendorExtras)
          /\ venvPkgs = {}
          /\ venvToken = FALSE
    /\ ExtractIdle
    /\ RunIdle
    /\ VersionIdle
    /\ FsIdle
    /\ CliIdle

\* install_requirements(requirements) is entered in a new process, with the
\* requirements and the installer outcomes of the invocation before
install_requirements_again ==
    /\ pc \in {"idle", "done", "aborted", "killed"}
    /\ runs < MaxRuns
    /\ pc' = install_requirements_steps[1]
    /\ calls' = <<>>
    /\ output' = <<>>
    /\ exitCode' = 0
    /\ runs' = runs + 1
    /\ killed' = (pc = "killed")
    /\ UNCHANGED <<requirements, uvOnPath, vendorProc, venvProc, pyodideSite,
                   vendorDir, venvPkgs, venvToken, tokenTime>>
    /\ UNCHANGED <<extractVars, runVars, versionVars, fsVars, staleVars, cliVars>>

\* the process is terminated during the vendor install: uv has installed
\* some of the packages; when it had finished, python_modules may be
\* removed, or copied without pyvenv.cfg, or without the token
KillInVendor ==
    /\ pc = "vendor"
    /\ pc' = "killed"
    /\ IF Len(requirements) = 0 \/ ~uvOnPath
       THEN UNCHANGED <<pyodideSite, vendorDir>>
       ELSE \E part \in SUBSET Range(requirements) :
               /\ pyodideSite' = pyodideSite \cup part
               /\ vendorDir' \in
                    {Mkdir(vendorDir)} \cup
                    (IF part = Range(requirements) /\ vendorProc.returncode = 0
                     THEN {NoDir, Dir(pyodideSite'), Dir(pyodideSite' \cup {"pyvenv.cfg"})}
                     ELSE {})
    /\ UNCHANGED <<requirements, uvOnPath, vendorProc, venvProc, calls, output,
                   exitCode, venvPkgs, venvToken, runs, killed, tokenTime>>
    /\ UNCHANGED <<extractVars, runVars, versionVars, fsVars, staleVars, cliVars>>

\* the process is terminated during the native install: uv has installed
\* some of the packages, the token has not been touched
KillInVenv ==
    /\ pc = "venv"
    /\ pc' = "killed"
    /\ IF ~uvOnPath
       THEN UNCHANGED venvPkgs
       ELSE \E part \in SUBSET (Range(requirements) \cup {"pyodide-py"}) :
               venvPkgs' = venvPkgs \cup part
    /\ UNCHANGED <<requirements, uvOnPath, vendorProc, venvProc, calls, output,
                   exitCode, pyodideSite, vendorDir, venvToken, runs, killed, tokenTime>>
    /\ UNCHANGED <<extractVars, runVars, versionVars, fsVars, staleVars, cliVars>>

NextRerun ==
    \/ install_requirements_again
    \/ _install_requirements_to_vendor
    \/ _install_requirements_to_venv
    \/ KillInVendor
    \/ KillInVenv

SpecRerun == InitRerun /\ [][NextRerun]_vars

(***************************************************************************)
(* C24: both installers are idempotent: a second run of                    *)
(* install_requirements with the same requirements and the same installer  *)
(* outcomes leaves both environments, and the vendor directory, with the   *)
(* package sets the first run left; and the invocation after a run that    *)
(* was ended by process termination performs the full install again.       *)
(***************************************************************************)
C24_IdempotentAndRecoverable ==
    /\ [][ (runs >= 2 /\ ~killed /\ pc \in {"vendor", "venv"} /\ pc' # "killed") =>
               /\ pyodideSite' = pyodideSite
               /\ vendorDir' = vendorDir
               /\ venvPkgs' = venvPkgs
               /\ venvToken' = venvToken ]_vars
    /\ []( (killed /\ pc = "done") =>
               /\ calls = << [fn |-> "vendor", args |-> requirements],
                             [fn |-> "venv", args |-> requirements] >>
               /\ Range(requirements) \cup {"pyodide-py"} \subseteq venvPkgs
               /\ venvToken
               /\ requirements # <<>> =>
                      /\ Range(requirements) \subseteq pyodideSite
                      /\ vendorDir = Dir(pyodideSite \cup {"pyvenv.cfg", ".synced"}) )

\* the run before was terminated; this one has installed numpy and shapely
\* in both environments and python_modules is complete
C24_Witness ==
    /\ killed
    /\ runs = 2
    /\ pc = "done"
    /\ requirements = <<"numpy", "shapely">>
    /\ pyodideSite = {"numpy", "shapely"}
    /\ vendorDir = Dir({"numpy", "shapely", "pyvenv.cfg", ".synced"})
    /\ venvPkgs = {"numpy", "shapely", "pyodide-py"}
    /\ venvToken

(***************************************************************************)
(* C25: the sync command exits non-zero with a 'pyproject.toml not found'  *)
(* error when there is no pyproject.toml, and exits non-zero with a 'not   *)
(* found' error naming wrangler.jsonc when the project root has neither    *)
(* wrangler.jsonc nor wrangler.toml.                                       *)
(***************************************************************************)
C25_MissingFilesReported ==
    (stage = "exited" /\ command.name = "sync" /\ syncState # "none") =>
        /\ ~manifest.exists =>
               /\ cliExit # 0
               /\ Reported({"pyproject.toml not found"})
        /\ (manifest.exists /\ ~config.present) =>
               /\ cliExit # 0
               /\ Reported({"wrangler.jsonc", "not found"})

(***************************************************************************)
(* C26: a failing native install of the original requirements does not     *)
(* abort the run by itself: when it fails and the cross-compiled install   *)
(* succeeds, the resolved versions are still extracted after it, and the   *)
(* run succeeds exactly when the resolved list is empty or a native        *)
(* reinstall that follows the extraction succeeds.                         *)
(***************************************************************************)
C26_FirstNativeFailureTolerated ==
    (Finished /\ requirements # <<>> /\ CrossSucceeds /\ NativeFails) =>
        /\ \E i \in CallsOf("venv") : \E j \in CallsOf("extract") : i < j
        /\ pc = "done" <=>
               \/ pyodideSite = {}
               \/ /\ \E j \in CallsOf("extract") :
                         \E k \in CallsOf("venv") : j < k
                  /\ exitCode = 0

\* the known signatures in the order of their table
KnownSignatureOrder ==
    <<"invalid peer certificate", "failed to fetch",
      "no solution found when resolving dependencies">>

\* the positions of the signatures a diagnostic holds
MatchingSignatures(text) ==
    {i \in 1..Len(KnownSignatureOrder) : KnownSignatureOrder[i] \in text}

(***************************************************************************)
(* C27: the known signatures are matched first-match-wins over an ordered  *)
(* list: a cross-compiled diagnostic that holds more than one known        *)
(* signature gets exactly one hint reported, the hint of the earliest      *)
(* signature of the list that it holds.                                    *)
(***************************************************************************)
C27_FirstMatchWins ==
    (Finished /\ CrossFails /\ NativeSucceeds
        /\ Cardinality(MatchingSignatures(vendorProc.text)) > 1) =>
        \A i \in 1..Len(KnownSignatureOrder) :
            Reported({HintOf(KnownSignatureOrder[i])}) <=>
                /\ i \in MatchingSignatures(vendorProc.text)
                /\ \A j \in MatchingSignatures(vendorProc.text) : i <= j

\* "\n".join(lines)
RECURSIVE JoinLines(_)
JoinLines(lines) ==
    IF lines = <<>> THEN <<>>
    ELSE IF Len(lines) = 1 THEN lines[1]
    ELSE lines[1] \o <<"\n">> \o JoinLines(Tail(lines))

(***************************************************************************)
(* C28: the pin parser is idempotent and its output is a resolved package  *)
(* list: parsing the newline-joined output again returns the same list,    *)
(* and every entry of the output holds "==" and does not begin with "#".   *)
(***************************************************************************)
C28_ParserIdempotent ==
    extraction.state = "parsed" =>
        LET pins == extraction.pins
        IN  /\ _parse_pip_freeze(JoinLines(pins)) = pins
            /\ \A n \in 1..Len(pins) :
                   /\ pins[n] # <<>>
                   /\ pins[n][1] # "#"
                   /\ \E k \in 1..(Len(pins[n]) - 1) :
                          pins[n][k] = "=" /\ pins[n][k + 1] = "="
                   /\ \A k \in 1..Len(pins[n]) : pins[n][k] # "\n"

\* a listing with a commented-out pin, a pin and a trailing line break: the
\* output is the one pin, and parsing it again gives it back
C28_Witness ==
    /\ extraction.state = "parsed"
    /\ freeze.stdout = <<"#", "=", "=", "\n", "=", "=", "\n">>
    /\ extraction.pins = << <<"=", "=">> >>
    /\ _parse_pip_freeze(JoinLines(extraction.pins)) = extraction.pins

(***************************************************************************)
(* C29: when the installer process of the cross-compiled environment       *)
(* fails, a vendor directory that exists is left as it was, with its       *)
(* contents and its marker (.synced and its modification time); the        *)
(* directory is removed and replaced only in a step whose installer        *)
(* process succeeded.                                                      *)
(***************************************************************************)
C29_FailedInstallKeepsVendor ==
    /\ [][ (pc = "vendor" /\ pc' = "aborted" /\ vendorDir.exists) =>
               /\ vendorDir' = vendorDir
               /\ tokenTime'.vendor = tokenTime.vendor ]_vars
    /\ [][ (vendorDir.exists /\ vendorDir' # vendorDir) =>
               /\ pc = "vendor"
               /\ requirements # <<>>
               /\ uvOnPath
               /\ vendorProc.returncode = 0 ]_vars

\* a sync whose cross-compiled install failed over the vendor directory of
\* an earlier sync, which is still there with its older marker
C29_Witness ==
    /\ pc = "aborted"
    /\ uvOnPath
    /\ vendorProc.returncode # 0
    /\ vendorDir.exists
    /\ {"shapely", "pyvenv.cfg", ".synced"} \subseteq vendorDir.entries
    /\ tokenTime.vendor < now

(***************************************************************************)
(* C30: a successful cross-compiled install of a non-empty requirement     *)
(* list leaves in the vendor directory exactly a copy of the site-packages *)
(* of the cross-compiled environment plus pyvenv.cfg and .synced: nothing  *)
(* else of the vendor directory of before survives, and a package that is  *)
(* no longer required but is still installed in the cross-compiled         *)
(* environment is still in the vendor directory.                           *)
(***************************************************************************)
C30_VendorIsCopyOfSitePackages ==
    [][ (pc = "vendor" /\ requirements # <<>> /\ pc' = "venv") =>
            LET copied == pyodideSite' \cup {"pyvenv.cfg", ".synced"}
            IN  /\ vendorDir'.exists
                /\ vendorDir'.entries = copied
                /\ (vendorDir.entries \ copied) \cap vendorDir'.entries = {}
                /\ Range(requirements) \subseteq vendorDir'.entries
                /\ (pyodideSite \ Range(requirements)) \subseteq vendorDir'.entries
      ]_vars

\* numpy alone is required, shapely is still installed from the sync
\* before: both are in the vendor directory
C30_Witness ==
    /\ pc = "done"
    /\ requirements = <<"numpy">>
    /\ pyodideSite = {"numpy", "shapely"}
    /\ vendorDir = Dir({"numpy", "shapely", "pyvenv.cfg", ".synced"})

\* the minor version an interpreter reports itself to be
ReportedMinor(python) ==
    CASE python = "Python 3.12.7" -> "3.12"
      [] python = "Python 3.13.2" -> "3.13"
      [] python = "Python 3.13.12" -> "3.13"
      [] OTHER -> NoVersion

(***************************************************************************)
(* C31: create_workers_venv keeps an existing native environment only if   *)
(* its interpreter version can be determined and is the wanted runtime     *)
(* version; otherwise the environment is created anew with the wanted      *)
(* version.  After the step the environment exists with an interpreter of  *)
(* the wanted minor version, and it is the environment of before exactly   *)
(* when that one had the wanted minor version.                             *)
(***************************************************************************)
C31_VenvKeptOnlyIfVersionMatches ==
    [][ (stage = "create_workers_venv" /\ stage' = "install_pyodide_build") =>
            /\ workersVenv'.exists
            /\ ReportedMinor(workersVenv'.python) = versionCall'.version
            /\ (workersVenv.exists
                  /\ ReportedMinor(workersVenv.python) = versionCall'.version)
               <=> (workersVenv' = workersVenv /\ venvToken' = venvToken
                      /\ pyodideVenv' = pyodideVenv)
      ]_vars

\* this process has removed an existing .venv-workers
Recreated ==
    \/ Reported({"Recreating virtual environment"})
    \/ Reported({"Could not determine python version"})

(***************************************************************************)
(* C32: when create_workers_venv removes an existing native environment    *)
(* to create it anew, its completion marker and the pyodide venv inside it *)
(* are gone after the step; later in the same sync create_pyodide_venv has *)
(* created the pyodide venv again, for the interpreter of the wanted       *)
(* version; and the marker comes back only by a native install that        *)
(* succeeded, is_sync_needed being true for as long as it is absent.       *)
(***************************************************************************)
C32_RecreationRemovesNested ==
    /\ [][ (stage = "create_workers_venv" /\ workersVenv.exists
              /\ workersVenv' # workersVenv) =>
               /\ ~venvToken'
               /\ ~pyodideVenv' ]_vars
    /\ []( (Recreated /\ stage \in {"generate_requirements", "install_requirements"}) =>
               /\ pyodideVenv
               /\ derived.interp # NoName )
    /\ [][ (~venvToken /\ venvToken') =>
               /\ pc = "venv"
               /\ uvOnPath
               /\ venvProc.returncode = 0 ]_vars
    /\ []( (manifest.exists /\ ~venvToken) =>
               is_sync_needed_value(manifest, VendorToken(vendorDir, tokenTime),
                                    [exists |-> venvToken, mtime |-> tokenTime.venv]) )

\* a sync that removed the environment of an earlier sync: the pyodide venv
\* is there again, the native install has failed and the marker is absent
C32_Witness ==
    /\ Recreated
    /\ stage = "exited"
    /\ pc = "aborted"
    /\ workersVenv.exists
    /\ pyodideVenv
    /\ ~venvToken
    /\ ".synced" \in vendorDir.entries
    /\ tokenTime.vendor >= manifest.mtime

(***************************************************************************)
(* C33: is_sync_needed returning false implies that both environments were *)
(* last installed completely and successfully from the current manifest:   *)
(* in no state do markers that make is_sync_needed false coexist with an   *)
(* environment whose latest install attempt failed.  After a sync whose    *)
(* install was aborted, is_sync_needed is true.                            *)
(***************************************************************************)
C33_NotNeededImpliesInstalled ==
    (stage = "exited" /\ command.name = "sync" /\ pc = "aborted" /\ manifest.exists) =>
        is_sync_needed_value(manifest, VendorToken(vendorDir, tokenTime),
                             VenvToken(venvToken, tokenTime))

\* what is_sync_needed would return in a project directory
NeededIn(mf, dir, token, times) ==
    is_sync_needed_value(mf, VendorToken(dir, times), VenvToken(token, times))

(***************************************************************************)
(* C34: when install_requirements completes successfully with a non-empty  *)
(* requirement list, both completion markers exist and is_sync_needed is   *)
(* false; it stays false while time passes and the manifest is not         *)
(* modified; and once the manifest is modified later than both markers,    *)
(* is_sync_needed is true again.                                           *)
(***************************************************************************)
C34_FreshAfterInstallStaleAfterEdit ==
    /\ [][ (pc = "venv" /\ pc' = "done" /\ requirements # <<>>) =>
               /\ ".synced" \in vendorDir'.entries
               /\ venvToken'
               /\ ~NeededIn(manifest', vendorDir', venvToken', tokenTime') ]_vars
    /\ [][ (stage = "idle" /\ manifest' = manifest
              /\ ~NeededIn(manifest, vendorDir, venvToken, tokenTime)) =>
               ~NeededIn(manifest', vendorDir', venvToken', tokenTime') ]_vars
    /\ [][ (manifest' # manifest /\ manifest'.exists
              /\ manifest'.mtime > tokenTime.vendor
              /\ manifest'.mtime > tokenTime.venv) =>
               NeededIn(manifest', vendorDir', venvToken', tokenTime') ]_vars

\* numpy was installed, time has passed and the manifest was written again:
\* both markers are there and older than the manifest, a sync is needed
C34_Witness ==
    /\ stage = "idle"
    /\ "numpy" \in vendorDir.entries
    /\ ".synced" \in vendorDir.entries
    /\ venvToken
    /\ manifest.exists
    /\ manifest.mtime > tokenTime.vendor
    /\ manifest.mtime > tokenTime.venv
    /\ NeededIn(manifest, vendorDir, venvToken, tokenTime)

(***************************************************************************)
(* C35: the native installer does not modify the requirement list it is    *)
(* given: no native install step changes the list the caller holds, so in  *)
(* every run, first or repeated, both installers are called with a list    *)
(* without "pyodide-py", and "pyodide-py" is never installed in the        *)
(* cross-compiled environment nor copied to the vendor directory.          *)
(***************************************************************************)
C35_CallerListUnchanged ==
    /\ [][ pc = "venv" => requirements' = requirements ]_vars
    /\ []( /\ "pyodide-py" \notin Range(requirements)
           /\ \A n \in 1..Len(calls) :
                  /\ calls[n].args = requirements
                  /\ "pyodide-py" \notin Range(calls[n].args)
           /\ "pyodide-py" \notin pyodideSite
           /\ "pyodide-py" \notin vendorDir.entries )

\* a second complete run: the native environment has pyodide-py, the list
\* and the cross-compiled environment do not
C35_Witness ==
    /\ runs = 2
    /\ pc = "done"
    /\ requirements = <<"numpy", "shapely">>
    /\ calls = << [fn |-> "vendor", args |-> requirements],
                  [fn |-> "venv", args |-> requirements] >>
    /\ "pyodide-py" \in venvPkgs
    /\ pyodideSite = {"numpy", "shapely"}

(***************************************************************************)
(* run_command on its own: the executable found or not, a process of any   *)
(* outcome, check and capture_output set or not.                           *)
(***************************************************************************)
RunProcs ==
    [returncode : {0, 1, 2},
     text : {{}} \cup PyodideDiagnostics \cup NativeDiagnostics]

InitRun ==
    /\ SyncInit
    /\ ExtractIdle
    /\ VersionIdle
    /\ FsIdle
    /\ CliIdle
    /\ runCall \in [state : {"ready"}, found : BOOLEAN, proc : RunProcs,
                    check : BOOLEAN, capture : BOOLEAN]

\* run_command(command, check=..., capture_output=...)
RunCommand ==
    /\ runCall.state = "ready"
    /\ runCall' = [state |-> "called", found |-> runCall.found,
                   proc |-> runCall.proc, check |-> runCall.check,
                   capture |-> runCall.capture,
                   result |-> run_command(runCall.found, runCall.proc,
                                          runCall.check, runCall.capture)]
    /\ UNCHANGED <<syncVars, extractVars, versionVars, tokenTime, fsVars, staleVars,
                   cliVars>>

NextRun == RunCommand

SpecRun == InitRun /\ [][NextRun]_vars

(***************************************************************************)
(* C36: run_command ends with exit code 1 when the executable is not found *)
(* on the search path, and the process is not started; with check set, a   *)
(* process that exits non-zero ends the call with an exit of exactly that  *)
(* code; with check not set, a process that exits non-zero is returned to  *)
(* the caller with its return code and, when captured, its output, and     *)
(* nothing is raised.                                                      *)
(***************************************************************************)
C36_RunCommandOutcomes ==
    runCall.state = "called" =>
        LET r == runCall.result
            failed == runCall.proc.returncode # 0
        IN  /\ ~runCall.found =>
                  (r.raised /\ r.code = 1 /\ ~r.started)
            /\ (runCall.found /\ runCall.check /\ failed) =>
                  (r.raised /\ r.code = runCall.proc.returncode)
            /\ (runCall.found /\ ~runCall.check /\ failed) =>
                  /\ ~r.raised
                  /\ r.process.returncode = runCall.proc.returncode
                  /\ runCall.capture => r.stdout = runCall.proc.text
            /\ (runCall.found /\ ~failed) => ~r.raised

\* a process that exits 2 with check not set and its output captured: the
\* caller gets the return code and the text
C36_Witness ==
    /\ runCall.state = "called"
    /\ runCall.found
    /\ ~runCall.check
    /\ runCall.capture
    /\ runCall.proc.returncode = 2
    /\ "failed to fetch" \in runCall.proc.text
    /\ ~runCall.result.raised
    /\ runCall.result.process.returncode = 2
    /\ runCall.result.stdout = runCall.proc.text

=============================================================================
